---- MODULE Spec2Model ----
(***************************************************************************)
(* Model of proc.py: matching of Synthea patients against the trials of    *)
(* the ClinicalTrials.gov registry.                                        *)
(*                                                                         *)
(* Text is a sequence of characters, a character is a one-element string   *)
(* token.  "^2" stands for the character SUPERSCRIPT TWO (U+00B2), for     *)
(* which Python's str.isdigit() is true and int() raises ValueError.       *)
(* The absent value None is the text <<"None">>, whose only element is no  *)
(* character of any alphabet.                                              *)
(***************************************************************************)
EXTENDS Integers, Sequences, FiniteSets, TLC

VARIABLES pc, dataset, patients, idx, all_results, csv_rows, files, err,
          params_token, studies, next_token, pages, sent, trials_data,
          matched, call, ret

vars == <<pc, dataset, patients, idx, all_results, csv_rows, files, err,
          params_token, studies, next_token, pages, sent, trials_data,
          matched, call, ret>>

progVars == <<pc, dataset, patients, idx, all_results, csv_rows, files, err,
              params_token, studies, next_token, pages, sent, trials_data,
              matched>>

----------------------------------------------------------------------------
(* Bounds of the model *)

\* longest age text given to parse_age_string on its own
MaxAgeLen == 3
\* longest eligibility age text given to meets_structured_criteria on its own
MaxRuleLen == 2
\* largest patient age given to meets_structured_criteria on its own
MaxAge == 2
\* most requests of one fetch the model follows
MaxPages == 2
\* most records one fetch accumulates in the model
MaxStudies == 2

----------------------------------------------------------------------------
(* Text *)

None == <<"None">>

DecimalChars == {"0", "1", "2"}
\* characters with Numeric_Type=Digit that are no decimal digits
OtherDigitChars == {"^2"}
WhitespaceChars == {" "}

DigitValue(c) == CASE c = "0" -> 0 [] c = "1" -> 1 [] c = "2" -> 2

\* str.lower() and str.upper() on one character
LowerChar(c) ==
  CASE c = "A" -> "a" [] c = "B" -> "b" [] c = "C" -> "c" [] c = "E" -> "e"
    [] c = "F" -> "f" [] c = "L" -> "l" [] c = "M" -> "m" [] c = "N" -> "n"
    [] c = "X" -> "x" [] c = "Y" -> "y" [] OTHER -> c

UpperChar(c) ==
  CASE c = "a" -> "A" [] c = "b" -> "B" [] c = "c" -> "C" [] c = "e" -> "E"
    [] c = "f" -> "F" [] c = "l" -> "L" [] c = "m" -> "M" [] c = "n" -> "N"
    [] c = "x" -> "X" [] c = "y" -> "Y" [] OTHER -> c

Lower(s) == [i \in 1..Len(s) |-> LowerChar(s[i])]
Upper(s) == [i \in 1..Len(s) |-> UpperChar(s[i])]

StartsWith(s, prefix) ==
  /\ Len(s) >= Len(prefix)
  /\ SubSeq(s, 1, Len(prefix)) = prefix

\* str.split(): the maximal runs of non-whitespace characters, in order
RECURSIVE SplitFrom(_, _, _)
SplitFrom(s, i, cur) ==
  IF i > Len(s)
  THEN IF cur = <<>> THEN <<>> ELSE <<cur>>
  ELSE IF s[i] \in WhitespaceChars
       THEN IF cur = <<>>
            THEN SplitFrom(s, i + 1, <<>>)
            ELSE <<cur>> \o SplitFrom(s, i + 1, <<>>)
       ELSE SplitFrom(s, i + 1, Append(cur, s[i]))

Split(s) == SplitFrom(s, 1, <<>>)

\* str.isdigit(): non-empty and every character is a digit of some kind
IsDigit(p) ==
  /\ Len(p) > 0
  /\ \A i \in 1..Len(p) : p[i] \in DecimalChars \cup OtherDigitChars

RECURSIVE DecimalValue(_)
DecimalValue(p) ==
  IF p = <<>> THEN 0
  ELSE 10 * DecimalValue(SubSeq(p, 1, Len(p) - 1)) + DigitValue(p[Len(p)])

Returned(v) == [exc |-> "none", val |-> v]
Raised(e) == [exc |-> e, val |-> 0]

\* int(p): the value of a decimal literal, ValueError for any other text
IntOf(p) ==
  IF Len(p) > 0 /\ \A i \in 1..Len(p) : p[i] \in DecimalChars
  THEN Returned(DecimalValue(p))
  ELSE Raised("ValueError")

----------------------------------------------------------------------------
(* parse_age_string *)

RECURSIVE FirstDigitToken(_)
FirstDigitToken(parts) ==
  IF parts = <<>> THEN Returned(0)
  ELSE IF IsDigit(Head(parts)) THEN IntOf(Head(parts))
       ELSE FirstDigitToken(Tail(parts))

parse_age_string(age_str) ==
  IF age_str = None \/ age_str = <<>> \/ StartsWith(Lower(age_str), <<"n", "/", "a">>)
  THEN Returned(0)
  ELSE FirstDigitToken(Split(age_str))

----------------------------------------------------------------------------
(* meets_structured_criteria *)

\* dict.get(key, default) on an eligibility module whose absent keys hold Missing
Missing == <<"Missing">>
GetOr(d, key, default) == IF d[key] = Missing THEN default ELSE d[key]

FEMALE == <<"F", "E", "M", "A", "L", "E">>
MALE == <<"M", "A", "L", "E">>
ALL == <<"A", "L", "L">>

meets_structured_criteria(patient_age, patient_gender, eligibility) ==
  LET min_age_str == GetOr(eligibility, "minimumAge", <<>>)
      max_age_str == GetOr(eligibility, "maximumAge", <<>>)
      sex_str == GetOr(eligibility, "sex", ALL)
      min_age == parse_age_string(min_age_str)
      max_age == parse_age_string(max_age_str)
  IN  IF min_age.exc # "none" THEN Raised(min_age.exc)
      ELSE IF max_age.exc # "none" THEN Raised(max_age.exc)
      ELSE IF min_age.val # 0 /\ patient_age < min_age.val THEN Returned(FALSE)
      ELSE IF max_age.val # 0 /\ patient_age > max_age.val THEN Returned(FALSE)
      ELSE IF sex_str = FEMALE /\ Upper(patient_gender) \notin {FEMALE, <<"F">>}
           THEN Returned(FALSE)
      ELSE IF sex_str = MALE /\ Upper(patient_gender) \notin {MALE, <<"M">>}
           THEN Returned(FALSE)
      ELSE Returned(TRUE)

----------------------------------------------------------------------------
(* Registry records and patients of the model *)

\* An absent key of a study is Missing; the whole module absent is every key Missing.
NoEligibility == [minimumAge |-> Missing, maximumAge |-> Missing, sex |-> Missing]

Trial1 == [nctId |-> "NCT1", briefTitle |-> "T1",
           eligibility |-> [minimumAge |-> <<"1", " ", "Y">>, maximumAge |-> Missing,
                            sex |-> FEMALE],
           conditions |-> << <<"A">>, <<"b">>, <<"C">>, <<"a">> >>]
Trial2 == [nctId |-> "NCT2", briefTitle |-> "T2",
           eligibility |-> NoEligibility,
           conditions |-> << <<"C">> >>]
Trial3 == [nctId |-> "NCT3", briefTitle |-> "T3",
           eligibility |-> [minimumAge |-> None, maximumAge |-> <<"1">>, sex |-> MALE],
           conditions |-> << <<"b">>, <<"A">> >>]
Trial4 == [nctId |-> "NCT4", briefTitle |-> "T4",
           eligibility |-> [minimumAge |-> <<"^2", " ", "Y">>, maximumAge |-> <<>>,
                            sex |-> ALL],
           conditions |-> << <<"a">> >>]

Trials == {Trial1, Trial2, Trial3, Trial4}

\* rows of patients.csv
Row1 == [Id |-> "P1", AGE |-> 1, GENDER |-> <<"F">>]
Row2 == [Id |-> "P2", AGE |-> 0, GENDER |-> <<"m", "a", "l", "e">>]
Row3 == [Id |-> "P3", AGE |-> 2, GENDER |-> <<"f">>]

\* rows of conditions.csv; a DESCRIPTION of None is an empty cell (NaN)
CondRows == << [PATIENT |-> "P1", DESCRIPTION |-> <<"a">>],
               [PATIENT |-> "P2", DESCRIPTION |-> <<"b">>],
               [PATIENT |-> "P1", DESCRIPTION |-> <<"B">>],
               [PATIENT |-> "P1", DESCRIPTION |-> <<"a">>],
               [PATIENT |-> "P2", DESCRIPTION |-> None],
               [PATIENT |-> "P2", DESCRIPTION |-> <<"C">>] >>

\* The csv folder: whether each file has its required columns, and its rows.
Datasets ==
  { [patients_cols |-> FALSE, rows |-> <<Row1>>, conditions_cols |-> TRUE, cond_rows |-> CondRows],
    [patients_cols |-> TRUE, rows |-> <<Row1, Row2>>, conditions_cols |-> FALSE, cond_rows |-> CondRows],
    [patients_cols |-> TRUE, rows |-> <<Row1, Row3>>, conditions_cols |-> FALSE, cond_rows |-> <<>>],
    [patients_cols |-> TRUE, rows |-> <<>>, conditions_cols |-> TRUE, cond_rows |-> CondRows],
    [patients_cols |-> TRUE, rows |-> <<Row1, Row3, Row2>>, conditions_cols |-> TRUE, cond_rows |-> CondRows] }

----------------------------------------------------------------------------
(* build_patient_data *)

RECURSIVE Unique(_)
\* Series.unique(): first occurrences, in order
Unique(s) ==
  IF s = <<>> THEN <<>>
  ELSE LET init == Unique(SubSeq(s, 1, Len(s) - 1))
           last == s[Len(s)]
       IN IF \E i \in 1..Len(init) : init[i] = last THEN init ELSE Append(init, last)

IsOf(pid, r) == r.PATIENT = pid
NotNaN(r) == r.DESCRIPTION # None

\* groupby("PATIENT_ID")["DESCRIPTION"] of one patient: dropna().unique(), as a list
Descriptions(cond_rows, pid) ==
  LET mine == SelectSeq(cond_rows, LAMBDA r : IsOf(pid, r) /\ NotNaN(r))
  IN  Unique([i \in 1..Len(mine) |-> mine[i].DESCRIPTION])

IsList(items) == [is_list |-> TRUE, items |-> items]
NaN == [is_list |-> FALSE, items |-> <<>>]

\* CONDITION_LIST of one patient: [] for everyone when conditions.csv has no rows,
\* else the left merge of the aggregate: NaN for a patient with no row at all
CONDITION_LIST(d, pid) ==
  IF d.cond_rows = <<>> THEN IsList(<<>>)
  ELSE IF \E i \in 1..Len(d.cond_rows) : d.cond_rows[i].PATIENT = pid
       THEN IsList(Descriptions(d.cond_rows, pid))
       ELSE NaN

build_patient_data(d) ==
  IF ~d.patients_cols THEN Raised("ValueError")
  ELSE IF d.cond_rows # <<>> /\ ~d.conditions_cols THEN Raised("ValueError")
  ELSE Returned([i \in 1..Len(d.rows) |->
                   [PATIENT_ID |-> d.rows[i].Id, AGE |-> d.rows[i].AGE,
                    GENDER |-> d.rows[i].GENDER,
                    CONDITION_LIST |-> CONDITION_LIST(d, d.rows[i].Id)]])

----------------------------------------------------------------------------
(* match_patient_to_trials: the filter over the fetched records *)

NotCalled == [exc |-> "unset", val |-> <<>>]
RaisedSeq(e) == [exc |-> e, val |-> <<>>]

\* patient_row.get("CONDITION_LIST", []), replaced by [] when it is no list
patient_conditions_of(patient_row) ==
  IF patient_row.CONDITION_LIST.is_list THEN patient_row.CONDITION_LIST.items ELSE <<>>

LowerSet(conds) == {Lower(conds[i]) : i \in 1..Len(conds)}

\* an intersection with the anchor condition alone
intersecting_conds_anchor(trial_conditions, patient_conditions) ==
  SelectSeq(trial_conditions,
            LAMBDA c : Lower(c) \in LowerSet(SubSeq(patient_conditions, 1, 1)))

\* the entries of the trial's list whose lowercased form is a lowercased patient condition
intersecting_conds(trial_conditions, patient_conditions) ==
  SelectSeq(trial_conditions, LAMBDA c : Lower(c) \in LowerSet(patient_conditions))

MatchOf(st, conds) ==
  [trialId |-> st.nctId, trialName |-> st.briefTitle, eligibilityCriteriaMet |-> conds]

\* an iteration that keeps a trial with no shared condition
MatchStepKeepsEmpty(acc, age, gender, patient_conditions, st) ==
  LET ok_structured == meets_structured_criteria(age, gender, st.eligibility)
      conds == intersecting_conds(st.conditions, patient_conditions)
  IN  IF acc.exc # "none" THEN acc
      ELSE IF ok_structured.exc # "none" THEN RaisedSeq(ok_structured.exc)
      ELSE IF ~ok_structured.val THEN acc
      ELSE Returned(Append(acc.val, MatchOf(st, conds)))

\* an iteration that puts a new match first
MatchStepPrepends(acc, age, gender, patient_conditions, st) ==
  LET ok_structured == meets_structured_criteria(age, gender, st.eligibility)
      conds == intersecting_conds(st.conditions, patient_conditions)
  IN  IF acc.exc # "none" THEN acc
      ELSE IF ok_structured.exc # "none" THEN RaisedSeq(ok_structured.exc)
      ELSE IF ~ok_structured.val THEN acc
      ELSE IF conds = <<>> THEN acc
      ELSE Returned(<<MatchOf(st, conds)>> \o acc.val)

\* one iteration of the loop over trials_data: the matches so far, or the exception
MatchStep(acc, age, gender, patient_conditions, st) ==
  LET ok_structured == meets_structured_criteria(age, gender, st.eligibility)
      conds == intersecting_conds(st.conditions, patient_conditions)
  IN  IF acc.exc # "none" THEN acc
      ELSE IF ok_structured.exc # "none" THEN RaisedSeq(ok_structured.exc)
      ELSE IF ~ok_structured.val THEN acc
      ELSE IF conds = <<>> THEN acc
      ELSE Returned(Append(acc.val, MatchOf(st, conds)))

RECURSIVE MatchLoop(_, _, _, _, _)
MatchLoop(acc, age, gender, patient_conditions, trials) ==
  IF trials = <<>> THEN acc
  ELSE MatchLoop(MatchStep(acc, age, gender, patient_conditions, Head(trials)),
                 age, gender, patient_conditions, Tail(trials))

match_trials(patient_row, trials) ==
  MatchLoop(Returned(<<>>), patient_row.AGE, patient_row.GENDER,
            patient_conditions_of(patient_row), trials)

----------------------------------------------------------------------------
(* main: the entries of the two artifacts *)

RECURSIVE Join(_, _)
\* sep.join(items)
Join(sep, items) ==
  IF items = <<>> THEN <<>>
  ELSE IF Len(items) = 1 THEN items[1]
  ELSE items[1] \o sep \o Join(sep, Tail(items))

ResultEntry(patient_id, matched_trials) ==
  [patientId |-> patient_id, eligibleTrials |-> matched_trials]

CsvRowsOf(patient_id, matched_trials) ==
  [i \in 1..Len(matched_trials) |->
     [patientId |-> patient_id,
      trialId |-> matched_trials[i].trialId,
      trialName |-> matched_trials[i].trialName,
      eligibilityCriteriaMet |->
        Join(<<";", " ">>, matched_trials[i].eligibilityCriteriaMet)]]

----------------------------------------------------------------------------
(* fetch_ctg_studies: the registry's answers *)

\* data.get("nextPageToken") of a body without the key, or with null
NoneTok == "<None>"
Tokens == {"T2", "T3"}

\* a test for the absent token alone
FalsyNoneOnly(tok) == tok = NoneTok

\* "not next_token"
Falsy(tok) == tok = NoneTok \/ tok = ""

SeqsUpTo(S, n) == UNION {[1..k -> S] : k \in 0..n}

\* One answer to a request: a failure status, a body that is no JSON, or a JSON
\* body with an optional studies array and an optional nextPageToken.
Responses(room) ==
  {[kind |-> "http_error", has_studies |-> FALSE, studies |-> <<>>, nextPageToken |-> NoneTok],
   [kind |-> "bad_json", has_studies |-> FALSE, studies |-> <<>>, nextPageToken |-> NoneTok]}
  \cup [kind : {"ok"}, has_studies : {TRUE}, studies : SeqsUpTo(Trials, room),
        nextPageToken : Tokens \cup {NoneTok, ""}]
  \cup [kind : {"ok"}, has_studies : {FALSE}, studies : {<<>>},
        nextPageToken : Tokens \cup {NoneTok, ""}]

\* data.get("studies", [])
ChunkOf(resp) == IF resp.has_studies THEN resp.studies ELSE <<>>

\* a fetch that keeps the last page only
ExtendKeepsLastPage(acc, chunk) == chunk

\* studies.extend(chunk)
Extend(acc, chunk) == acc \o chunk

\* params after "if next_token: params['pageToken'] = next_token"
ParamsToken(params, tok) == IF Falsy(tok) THEN params ELSE tok

----------------------------------------------------------------------------
(* The run of main() *)

CsvFile == "patient_trial_matches.csv"
JsonFile == "patient_trial_matches.json"

Init ==
  /\ pc = "start"
  /\ dataset \in Datasets
  /\ patients = <<>>
  /\ idx = 0
  /\ all_results = <<>>
  /\ csv_rows = <<>>
  /\ files = {}
  /\ err = "none"
  /\ params_token = NoneTok
  /\ studies = <<>>
  /\ next_token = NoneTok
  /\ pages = <<>>
  /\ sent = <<>>
  /\ trials_data = NotCalled
  /\ matched = NotCalled
  /\ call = [fn |-> "main"]
  /\ ret = NotCalled

\* main, lines 217-219: load the csv folder and build the patient table
MainLoad ==
  /\ pc = "start"
  /\ LET r == build_patient_data(dataset)
     IN  IF r.exc # "none"
         THEN /\ pc' = "aborted"
              /\ err' = "SchemaError"
              /\ UNCHANGED <<patients, idx>>
         ELSE /\ pc' = "loop"
              /\ patients' = r.val
              /\ idx' = 1
              /\ err' = err
  /\ UNCHANGED <<dataset, all_results, csv_rows, files, params_token, studies,
                 next_token, pages, sent, trials_data, matched, call, ret>>

\* a loop that ends, and artifacts that are written, once the first patient is through
LoopDoneAfterFirst == idx > Len(patients) \/ idx > 1

\* the loop over df_patients.iterrows() has ended
LoopDone == idx > Len(patients)

\* an early return that misses the value that is no list
ReturnsEarlyOnEmptyListOnly(patient_row) ==
  patient_row.CONDITION_LIST.is_list /\ patient_row.CONDITION_LIST.items = <<>>

\* "if not patient_conditions: return []"
ReturnsEarly(patient_row) == patient_conditions_of(patient_row) = <<>>

\* main's loop body for a list of matches that match_patient_to_trials returned
Collected(results, patient_id, matched_trials) ==
  Append(results, ResultEntry(patient_id, matched_trials))

\* match_patient_to_trials up to the call of fetch_ctg_studies, for the next row of
\* the table; an early return goes on with main's loop body
MatchPatientStart ==
  /\ pc = "loop"
  /\ ~LoopDone
  /\ studies' = <<>>
  /\ next_token' = NoneTok
  /\ params_token' = NoneTok
  /\ pages' = <<>>
  /\ sent' = <<>>
  /\ trials_data' = NotCalled
  /\ IF ReturnsEarly(patients[idx])
     THEN /\ matched' = Returned(<<>>)
          /\ all_results' = Collected(all_results, patients[idx].PATIENT_ID, <<>>)
          /\ idx' = idx + 1
          /\ pc' = "loop"
     ELSE /\ matched' = NotCalled
          /\ pc' = "fetching"
          /\ UNCHANGED <<all_results, idx>>
  /\ UNCHANGED <<dataset, patients, csv_rows, files, err, call, ret>>

\* what the exception of a failed request is
FailureOf(resp) == IF resp.kind = "http_error" THEN "HTTPError" ELSE "JSONDecodeError"

\* a fetch that takes a body that is no JSON for an empty last page
RaisesOnStatusOnly(resp) == resp.kind = "http_error"

\* resp.raise_for_status() or resp.json() raises
Raises(resp) == resp.kind # "ok"

\* the request of one iteration, as far as it changes between iterations: the
\* pageToken of params (NoneTok: the key is not set)
RequestOf(tok) == [pageToken |-> tok]

\* One iteration of the loop of fetch_ctg_studies: a request and its answer.  When
\* the loop ends, the rest of match_patient_to_trials and of main's loop body runs.
FetchPage ==
  /\ pc = "fetching"
  /\ Len(sent) < MaxPages
  /\ \E resp \in Responses(MaxStudies - Len(studies)) :
       LET tok == ParamsToken(params_token, next_token)
           all == Extend(studies, ChunkOf(resp))
           m == match_trials(patients[idx], all)
       IN  /\ params_token' = tok
           /\ sent' = Append(sent, RequestOf(tok))
           /\ pages' = Append(pages, resp)
           /\ IF Raises(resp)
              THEN /\ pc' = "aborted"
                   /\ err' = FailureOf(resp)
                   /\ UNCHANGED <<studies, next_token, trials_data, matched,
                                  all_results, csv_rows, idx>>
              ELSE /\ studies' = all
                   /\ next_token' = resp.nextPageToken
                   /\ IF ~Falsy(resp.nextPageToken)
                      THEN UNCHANGED <<pc, err, trials_data, matched, all_results,
                                       csv_rows, idx>>
                      ELSE /\ trials_data' = Returned(all)
                           /\ IF m.exc # "none"
                              THEN /\ pc' = "aborted"
                                   /\ err' = m.exc
                                   /\ UNCHANGED <<matched, all_results, csv_rows, idx>>
                              ELSE /\ matched' = m
                                   /\ all_results' =
                                        Collected(all_results, patients[idx].PATIENT_ID, m.val)
                                   /\ csv_rows' = csv_rows \o
                                        CsvRowsOf(patients[idx].PATIENT_ID, m.val)
                                   /\ idx' = idx + 1
                                   /\ pc' = "loop"
                                   /\ err' = err
  /\ UNCHANGED <<dataset, patients, files, call, ret>>

\* main, line 240
WriteCsv ==
  /\ pc = "loop"
  /\ LoopDone
  /\ files' = files \cup {CsvFile}
  /\ pc' = "write_json"
  /\ UNCHANGED <<dataset, patients, idx, all_results, csv_rows, err, params_token,
                 studies, next_token, pages, sent, trials_data, matched, call, ret>>

\* main, lines 242-243
WriteJson ==
  /\ pc = "write_json"
  /\ files' = files \cup {JsonFile}
  /\ pc' = "done"
  /\ UNCHANGED <<dataset, patients, idx, all_results, csv_rows, err, params_token,
                 studies, next_token, pages, sent, trials_data, matched, call, ret>>

Next == MainLoad \/ MatchPatientStart \/ FetchPage \/ WriteCsv \/ WriteJson

Spec == Init /\ [][Next]_vars

\* The interpreter runs the single thread on, and every request is answered.
LiveSpec == Init /\ [][Next]_vars /\ WF_vars(Next)

----------------------------------------------------------------------------
(* parse_age_string and meets_structured_criteria called on their own *)

AgeChars == {"0", "1", "2", "^2", " ", "n", "N", "/", "a", "Y"}
RuleChars == {"0", "1", "^2", " ", "Y"}

AgeTexts == SeqsUpTo(AgeChars, MaxAgeLen) \cup {None, <<"N", "/", "A", " ", "2">>}

RuleTexts ==
  SeqsUpTo(RuleChars, MaxRuleLen)
    \cup {None, Missing, <<"N", "/", "A">>, <<"n", "/", "a">>, <<"1", " ", "Y">>}

Genders == {<<"F">>, <<"f">>, <<"F", "e", "m", "a", "l", "e">>, <<"M">>, MALE, <<"X">>}
Sexes == {Missing, ALL, FEMALE, MALE}

PureCalls ==
  [fn : {"parse_age_string"}, age_str : AgeTexts]
    \cup [fn : {"meets_structured_criteria"}, patient_age : 0..MaxAge,
          patient_gender : Genders,
          eligibility : [minimumAge : RuleTexts, maximumAge : RuleTexts, sex : Sexes]]

PureInit ==
  /\ pc = "pure"
  /\ dataset = [patients_cols |-> FALSE, rows |-> <<>>, conditions_cols |-> FALSE,
                cond_rows |-> <<>>]
  /\ patients = <<>>
  /\ idx = 0
  /\ all_results = <<>>
  /\ csv_rows = <<>>
  /\ files = {}
  /\ err = "none"
  /\ params_token = NoneTok
  /\ studies = <<>>
  /\ next_token = NoneTok
  /\ pages = <<>>
  /\ sent = <<>>
  /\ trials_data = NotCalled
  /\ matched = NotCalled
  /\ call \in PureCalls
  /\ ret = NotCalled

CallParseAge ==
  /\ pc = "pure"
  /\ call.fn = "parse_age_string"
  /\ ret = NotCalled
  /\ ret' = parse_age_string(call.age_str)
  /\ UNCHANGED <<progVars, call>>

CallMeets ==
  /\ pc = "pure"
  /\ call.fn = "meets_structured_criteria"
  /\ ret = NotCalled
  /\ ret' = meets_structured_criteria(call.patient_age, call.patient_gender,
                                      call.eligibility)
  /\ UNCHANGED <<progVars, call>>

PureNext == CallParseAge \/ CallMeets

PureSpec == PureInit /\ [][PureNext]_vars

----------------------------------------------------------------------------
(* What the claims speak of *)

\* the row of the table that match_patient_to_trials was last called with, or 0
StartedIdx ==
  IF pc = "fetching" \/ (pc = "aborted" /\ err # "SchemaError") THEN idx ELSE idx - 1

StartedRow == patients[StartedIdx]

\* the patient's condition list; a value that is no list holds no condition
ConditionsOf(row) ==
  IF row.CONDITION_LIST.is_list THEN row.CONDITION_LIST.items ELSE <<>>

\* the studies array of one page
PageStudies(resp) == IF resp.has_studies THEN resp.studies ELSE <<>>

RECURSIVE AllPageStudies(_)
AllPageStudies(ps) ==
  IF ps = <<>> THEN <<>> ELSE PageStudies(Head(ps)) \o AllPageStudies(Tail(ps))

TokenLess(resp) == resp.nextPageToken = NoneTok \/ resp.nextPageToken = ""
Succeeded(resp) == resp.kind = "ok"

\* no condition of the trial equals, case-insensitively, a condition of the patient
SharesNone(trial_conditions, conds) ==
  \A i \in 1..Len(trial_conditions) : \A j \in 1..Len(conds) :
    Lower(trial_conditions[i]) # Lower(conds[j])

PassesStructured(row, st) ==
  LET r == meets_structured_criteria(row.AGE, row.GENDER, st.eligibility)
  IN  r.exc = "none" /\ r.val

Qualifies(row, st) ==
  PassesStructured(row, st) /\ ~SharesNone(st.conditions, ConditionsOf(row))

\* every match of every patient the run has collected, and of the last call
AllMatches ==
  UNION {{all_results[i].eligibleTrials[j] : j \in 1..Len(all_results[i].eligibleTrials)} :
           i \in 1..Len(all_results)}

----------------------------------------------------------------------------
(* C1 *)

\* C1: when every page but the last carries a token and the last carries none,
\* fetch_ctg_studies returns the concatenation of the studies arrays of all pages,
\* in page order and within-page order (and holds it while it loops), and every
\* qualifying record of every page, not of the first alone, gets its match.
C1_FetchReturnsAllPages ==
  /\ pc = "fetching" => studies = AllPageStudies(pages)
  /\ trials_data.exc = "none" =>
       /\ trials_data.val = AllPageStudies(pages)
       /\ matched.exc = "none" =>
            \A i \in 1..Len(pages) : \A k \in 1..Len(PageStudies(pages[i])) :
              Qualifies(StartedRow, PageStudies(pages[i])[k]) =>
                \E j \in 1..Len(matched.val) :
                  matched.val[j].trialId = PageStudies(pages[i])[k].nctId

\* two pages, the first with a token and a record, the second with a qualifying record
C1_Witness ==
  /\ trials_data.exc = "none"
  /\ matched.exc = "none"
  /\ Len(pages) = 2
  /\ pages[1].nextPageToken = "T2"
  /\ pages[2].nextPageToken = NoneTok
  /\ Len(PageStudies(pages[1])) = 1
  /\ Len(PageStudies(pages[2])) = 1
  /\ Qualifies(StartedRow, PageStudies(pages[2])[1])
  /\ Len(trials_data.val) = 2

----------------------------------------------------------------------------
(* C2 *)

\* C2: when the request for a page, the first or a later one, ends in a failure
\* status or in a body that is no JSON, fetch_ctg_studies returns nothing, the
\* records of the earlier pages included, match_patient_to_trials returns no list,
\* and the run holds no entry for the patient.
C2_FailureReturnsNothing ==
  (pages # <<>> /\ ~Succeeded(pages[Len(pages)])) =>
    /\ pc = "aborted"
    /\ err \in {"HTTPError", "JSONDecodeError"}
    /\ trials_data.exc = "unset"
    /\ matched.exc = "unset"
    /\ Len(all_results) = idx - 1
    /\ \A i \in 1..Len(all_results) : all_results[i].patientId # patients[idx].PATIENT_ID
    /\ \A i \in 1..Len(csv_rows) : csv_rows[i].patientId # patients[idx].PATIENT_ID

\* the second page is no JSON after a first page that brought a record
C2_Witness ==
  /\ Len(pages) = 2
  /\ pages[2].kind = "bad_json"
  /\ Len(PageStudies(pages[1])) >= 1
  /\ studies # <<>>
  /\ pc = "aborted"

----------------------------------------------------------------------------
(* C3 *)

\* C3: for a patient whose condition list is empty, absent or no list,
\* match_patient_to_trials returns the empty list and no request is issued; a
\* request is issued only for a patient with at least one condition.
C3_NoConditionsNoRequest ==
  StartedIdx >= 1 =>
    /\ ConditionsOf(StartedRow) = <<>> =>
         /\ sent = <<>>
         /\ pages = <<>>
         /\ pc # "fetching"
         /\ matched.exc = "none"
         /\ matched.val = <<>>
         /\ all_results[StartedIdx].eligibleTrials = <<>>
    /\ (sent # <<>> \/ pc = "fetching") =>
         /\ StartedRow.CONDITION_LIST.is_list
         /\ Len(StartedRow.CONDITION_LIST.items) >= 1

\* the patient with no row in a non-empty conditions.csv, after a patient that was fetched for
C3_Witness ==
  /\ StartedIdx = 2
  /\ ~StartedRow.CONDITION_LIST.is_list
  /\ matched.exc = "none"
  /\ sent = <<>>
  /\ Len(all_results) = 2

----------------------------------------------------------------------------
(* C4 *)

\* C4: no artifact is written before matching has completed for all patients, and a
\* run that aborts, in ingestion or on a retrieval error for any patient, never
\* writes either artifact, whatever the number of patients matched before.
C4_ArtifactsOnlyAfterAllPatients ==
  /\ files # {} =>
       /\ pc \in {"write_json", "done"}
       /\ err = "none"
       /\ Len(all_results) = Len(patients)
       /\ \A i \in 1..Len(patients) : all_results[i].patientId = patients[i].PATIENT_ID
  /\ JsonFile \in files => CsvFile \in files
  /\ (pc = "aborted" \/ err # "none") => files = {}
  /\ pc \in {"start", "loop", "fetching"} => files = {}

\* a retrieval error for the third patient after two patients went through
C4_Witness ==
  /\ pc = "aborted"
  /\ err \in {"HTTPError", "JSONDecodeError"}
  /\ Len(all_results) = 2
  /\ all_results[1].eligibleTrials # <<>>
  /\ files = {}

----------------------------------------------------------------------------
(* C5 *)

\* C5: every match that match_patient_to_trials returns has a non-empty
\* eligibilityCriteriaMet, and a fetched trial that shares no condition with the
\* patient, case-insensitively, is in no match, even when it passes age and sex.
C5_MatchedConditionsNonEmpty ==
  /\ \A m \in AllMatches : m.eligibilityCriteriaMet # <<>>
  /\ (matched.exc = "none" /\ trials_data.exc = "none") =>
       /\ \A j \in 1..Len(matched.val) : matched.val[j].eligibilityCriteriaMet # <<>>
       /\ \A i \in 1..Len(trials_data.val) :
            SharesNone(trials_data.val[i].conditions, ConditionsOf(StartedRow)) =>
              \A j \in 1..Len(matched.val) :
                matched.val[j].trialId # trials_data.val[i].nctId

\* a trial that passes age and sex and shares nothing, fetched with one that matches
C5_Witness ==
  /\ matched.exc = "none"
  /\ trials_data.exc = "none"
  /\ Len(matched.val) = 1
  /\ \E i \in 1..Len(trials_data.val) :
       /\ PassesStructured(StartedRow, trials_data.val[i])
       /\ SharesNone(trials_data.val[i].conditions, ConditionsOf(StartedRow))

----------------------------------------------------------------------------
(* C7 *)

\* the trial whose record carries this registry identifier
TrialOf(id) == CHOOSE st \in Trials : st.nctId = id

RECURSIVE Retained(_, _)
\* the subsequence of the trial's list of the entries whose lowercased form is the
\* lowercased form of some condition of the patient
Retained(trial_conditions, conds) ==
  IF trial_conditions = <<>> THEN <<>>
  ELSE LET c == Head(trial_conditions)
           rest == Retained(Tail(trial_conditions), conds)
       IN  IF \E j \in 1..Len(conds) : Lower(conds[j]) = Lower(c)
           THEN <<c>> \o rest ELSE rest

\* C7: the eligibilityCriteriaMet of every match is the subsequence of the trial's
\* condition list of the entries that equal, lowercased, some entry of the patient's
\* full list, in the trial's order and casing, entries differing in case each tested.
C7_IntersectionAgainstFullList ==
  /\ matched.exc = "none" =>
       \A j \in 1..Len(matched.val) :
         matched.val[j].eligibilityCriteriaMet =
           Retained(TrialOf(matched.val[j].trialId).conditions, ConditionsOf(StartedRow))
  /\ \A i \in 1..Len(all_results) : \A j \in 1..Len(all_results[i].eligibleTrials) :
       all_results[i].eligibleTrials[j].eligibilityCriteriaMet =
         Retained(TrialOf(all_results[i].eligibleTrials[j].trialId).conditions,
                  ConditionsOf(patients[i]))

\* "A", "b", "a" kept of "A", "b", "C", "a" for the patient with "a" (the anchor) and "B"
C7_Witness ==
  /\ matched.exc = "none"
  /\ Len(matched.val) >= 1
  /\ matched.val[1].trialId = "NCT1"
  /\ matched.val[1].eligibilityCriteriaMet = << <<"A">>, <<"b">>, <<"a">> >>
  /\ ConditionsOf(StartedRow) = << <<"a">>, <<"B">> >>

----------------------------------------------------------------------------
(* C9 *)

\* the places of the fetched records that qualify for the patient
QualifyingPlaces(row, trials) == {i \in 1..Len(trials) : Qualifies(row, trials[i])}

\* C9: the returned list is an order-preserving filter of the fetched sequence:
\* the matches are, one each and in the order of the response, those of the
\* fetched records that qualify; nothing is reordered, merged or added.
C9_OrderPreservingFilter ==
  (matched.exc = "none" /\ trials_data.exc = "none") =>
    LET trials == trials_data.val
        places == QualifyingPlaces(StartedRow, trials)
    IN  /\ Len(matched.val) = Cardinality(places)
        /\ \E f \in [1..Len(matched.val) -> 1..Len(trials)] :
             /\ \A a, b \in 1..Len(matched.val) : a < b => f[a] < f[b]
             /\ \A a \in 1..Len(matched.val) :
                  /\ f[a] \in places
                  /\ matched.val[a].trialId = trials[f[a]].nctId
                  /\ matched.val[a].trialName = trials[f[a]].briefTitle

\* two different trials matched, one of each of two pages
C9_Witness ==
  /\ matched.exc = "none"
  /\ trials_data.exc = "none"
  /\ Len(pages) = 2
  /\ PageStudies(pages[1]) # <<>>
  /\ PageStudies(pages[2]) # <<>>
  /\ Len(matched.val) = 2
  /\ matched.val[1].trialId # matched.val[2].trialId

----------------------------------------------------------------------------
(* C10 *)

LastPage == pages[Len(pages)]

\* The loop of fetch_ctg_studies, request by request: a request follows only an
\* answer with a token and carries that token, the first carries none, and the
\* loop is left exactly on a failure or on an answer with no or an empty token.
C10_LoopShape ==
  /\ Len(sent) = Len(pages)
  /\ \A i \in 1..(Len(pages) - 1) : Succeeded(pages[i]) /\ ~TokenLess(pages[i])
  /\ sent # <<>> => sent[1].pageToken = NoneTok
  /\ \A i \in 2..Len(sent) : sent[i].pageToken = pages[i - 1].nextPageToken
  /\ pc = "fetching" => (pages = <<>> \/ (Succeeded(LastPage) /\ ~TokenLess(LastPage)))
  /\ (pages # <<>> /\ Succeeded(LastPage) /\ TokenLess(LastPage)) =>
       (pc # "fetching" /\ trials_data.exc = "none")
  /\ (pages # <<>> /\ ~Succeeded(LastPage)) => pc = "aborted"
  /\ trials_data.exc = "none" =>
       (pages # <<>> /\ Succeeded(LastPage) /\ TokenLess(LastPage))

\* the loop has run for as many pages as the model follows and every answer carried a token
C10_NoPageBound ==
  /\ pc = "fetching"
  /\ Len(sent) = MaxPages
  /\ \A i \in 1..Len(pages) : Succeeded(pages[i]) /\ ~TokenLess(pages[i])

----------------------------------------------------------------------------
(* C8 *)

\* s[i..j] is a whitespace-delimited token of s
IsTokenAt(s, i, j) ==
  /\ i <= j
  /\ \A k \in i..j : s[k] \notin WhitespaceChars
  /\ (i = 1 \/ s[i - 1] \in WhitespaceChars)
  /\ (j = Len(s) \/ s[j + 1] \in WhitespaceChars)

\* the tokens of s composed entirely of decimal digits, by their places
DecimalTokens(s) ==
  {t \in (1..Len(s)) \X (1..Len(s)) :
     IsTokenAt(s, t[1], t[2]) /\ \A k \in t[1]..t[2] : s[k] \in DecimalChars}

RECURSIVE NumberAt(_, _, _)
NumberAt(s, i, j) ==
  IF i > j THEN 0 ELSE 10 * NumberAt(s, i, j - 1) + DigitValue(s[j])

NotApplicable(s) ==
  Len(s) >= 3 /\ s[1] \in {"n", "N"} /\ s[2] = "/" /\ s[3] \in {"a", "A"}

\* parseAge as the specification states it
ParseAgeStated(s) ==
  IF s = None \/ s = Missing \/ s = <<>> THEN 0
  ELSE IF NotApplicable(s) THEN 0
  ELSE IF DecimalTokens(s) = {} THEN 0
  ELSE LET first == CHOOSE t \in DecimalTokens(s) :
                      \A u \in DecimalTokens(s) : t[1] <= u[1]
       IN  NumberAt(s, first[1], first[2])

HasOtherDigit(s) == \E i \in 1..Len(s) : s[i] \in OtherDigitChars

\* C8: parse_age_string is total: for every text it returns a non-negative integer
\* and never raises; 0 for empty, absent and "n/a"-prefixed text and for text with
\* no all-digit token, else the value of the first all-digit token.
C8_ParseAgeTotal ==
  (call.fn = "parse_age_string" /\ ret.exc # "unset") =>
    /\ ret.exc = "none"
    /\ ret.val \in Nat
    /\ ret.val = ParseAgeStated(call.age_str)

\* On text whose digits are all decimal, parse_age_string is as C8 states it.
ParseAgeOnDecimalText ==
  (call.fn = "parse_age_string" /\ ret.exc # "unset" /\ ~HasOtherDigit(call.age_str)) =>
    /\ ret.exc = "none"
    /\ ret.val \in Nat
    /\ ret.val = ParseAgeStated(call.age_str)

----------------------------------------------------------------------------
(* C6 *)

RuleRejects(age, gender, rule) ==
  LET m == ParseAgeStated(rule.minimumAge)
      M == ParseAgeStated(rule.maximumAge)
      sex == IF rule.sex = Missing THEN ALL ELSE rule.sex
  IN  \/ (m # 0 /\ age < m)
      \/ (M # 0 /\ age > M)
      \/ (sex = FEMALE /\ Upper(gender) \notin {FEMALE, <<"F">>})
      \/ (sex = MALE /\ Upper(gender) \notin {MALE, <<"M">>})

\* C6: for every age, sex text and rule, meets_structured_criteria returns false
\* exactly when the parsed minimum is non-zero and above the age, or the parsed
\* maximum is non-zero and below it, or the rule's sex is FEMALE or MALE and the
\* uppercased patient sex is not of it; it returns true otherwise.
C6_MeetsExactly ==
  (call.fn = "meets_structured_criteria" /\ ret.exc # "unset") =>
    /\ ret.exc = "none"
    /\ ret.val = ~RuleRejects(call.patient_age, call.patient_gender, call.eligibility)

\* On rules whose age texts hold decimal digits only, the function is as C6 states it.
MeetsOnDecimalText ==
  (/\ call.fn = "meets_structured_criteria"
   /\ ret.exc # "unset"
   /\ ~HasOtherDigit(call.eligibility.minimumAge)
   /\ ~HasOtherDigit(call.eligibility.maximumAge)) =>
    /\ ret.exc = "none"
    /\ ret.val = ~RuleRejects(call.patient_age, call.patient_gender, call.eligibility)

====
